---- MODULE Spec2Model ----
(***************************************************************************)
(* Retrieval core of the ml-service: ChromaService.search_similar          *)
(* (per-file deduplication of vector-store hits), DocumentProcessor        *)
(* .chunk_text (overlapping chunking) and AISearchService.hybrid_search    *)
(* (enhance, search, rerank, explain, sort, truncate).                     *)
(*                                                                         *)
(* Each component has its own specification (SpecDedup, SpecChunk,         *)
(* SpecHybrid); the variables of the other components stay at their idle   *)
(* values.  Distances and scores are in tenths (distance 3 is 0.3).        *)
(***************************************************************************)
EXTENDS Integers, Sequences, FiniteSets, TLC

VARIABLES
    \* ---- ChromaService.search_similar
    num_results,        \* self.num_results
    raw,                \* zip(documents, metadatas, distances) of collection.query
    pos,                \* number of raw hits the for loop has consumed
    seen_file_ids,      \* dict file_id -> index into the unique_* lists
    unique_docs,        \* list of documents (a document is its index in raw)
    unique_metas,
    unique_dists,
    formatted_results,  \* the returned dictionary
    spc,                \* "scan", "format", "returned", "raised"
    \* ---- DocumentProcessor.chunk_text
    text, chunk_size, overlap,
    start, chunks,
    windows,            \* the (start, end) pairs the while loop has sliced
    cpc,                \* "entry", "loop", "returned", "raised"
    \* ---- AISearchService.hybrid_search
    request,            \* the AISearchRequest
    store,              \* the collection's chunks, as ranked for the query
    search_query,
    search_results,     \* what search_similar_documents returned
    processed_results,
    response,           \* the AISearchResponse
    hpc,                \* "enhance", "search", "process", "responded", "raised"
    calls,              \* the external calls made so far, and whether each failed
    \* ---- one call of a helper: the query enhancers, ai_rerank_result
    fn_args,            \* the arguments and the model's outcome
    fn_result,
    fn_pc               \* which helper is called, or "done"

dedupVars == <<num_results, raw, pos, seen_file_ids, unique_docs, unique_metas,
               unique_dists, formatted_results, spc>>
chunkVars == <<text, chunk_size, overlap, start, chunks, windows, cpc>>
hybridVars == <<request, store, search_query, search_results, processed_results,
                response, hpc, calls>>
fnVars == <<fn_args, fn_result, fn_pc>>
vars == <<dedupVars, chunkVars, hybridVars, fnVars>>

\* ---------------------------------------------------------------- bounds
MaxResults == 3     \* num_results ranges over 1..MaxResults
MaxHits == 3        \* raw hit lists have at most MaxHits hits
MaxFile == 2        \* file ids are 1..MaxFile
MaxDist == 2        \* distances are 0..MaxDist
MaxLen == 4         \* texts have at most MaxLen characters after the padding
MaxChunk == 2       \* chunk_size is 1..MaxChunk, or that plus the padding
MaxOverlap == 2     \* overlap is 0..MaxOverlap
MaxN == 2           \* request.n_results is 1..MaxN
MaxStore == 2       \* the collection ranks at most MaxStore chunks
MaxStoreDist == 1   \* their distances are 0..MaxStoreDist steps
DistStep == 6       \* of DistStep hundred-thousandths each
MaxStoreFile == 1   \* the chunks of the collection come from MaxStoreFile files
MaxQuery == 2       \* queries have at most MaxQuery characters
MaxBody == 2        \* short model outputs have at most MaxBody characters
MaxScore == 12      \* the numbers a model writes are -MaxScore..MaxScore
MaxTokens == 2      \* a relevance response has at most MaxTokens tokens
MaxFine == 25       \* fusion is tried on distances of 0..MaxFine hundred-thousandths
MaxText == 2        \* texts to embed have at most MaxText characters
MaxFound == 1       \* the /search vector query finds at most MaxFound documents
MaxAddChunks == 2   \* a /chroma/add request has at most MaxAddChunks chunks
MaxIter == 8        \* iterations of chunk_text's while loop that are followed

\* ------------------------------------------------------ generic helpers
Min2(a, b) == IF a < b THEN a ELSE b

Max2(a, b) == IF a > b THEN a ELSE b

\* s[:n] of Python for n >= 0
Take(s, n) == SubSeq(s, 1, Min2(n, Len(s)))

SeqsUpTo(S, n) == UNION {[1..k -> S] : k \in 0..n}

\* ============================================= ChromaService.search_similar
\* Python's None as the value of meta.get('file_id')
NoFileId == 0

FileIds == 1..MaxFile

FetchMultiplier == 10

\* A metadata entry of the query result: None (is_dict = FALSE), or a dict
\* whose 'file_id' key is absent (NoFileId) or present.
HitMetas ==
    {[is_dict |-> FALSE, file_id |-> NoFileId]}
        \cup {[is_dict |-> TRUE, file_id |-> f] : f \in FileIds \cup {NoFileId}}

RawHits == [meta : HitMetas, dist : 0..MaxDist]

\* meta.get('file_id') raises AttributeError when meta is None
GetRaises(meta) == ~meta.is_dict

\* if file_id is None (the hit is skipped)
MissingFileIdM(file_id) == FALSE

MissingFileId(file_id) == file_id = NoFileId

\* if file_id not in seen_file_ids
UnseenM(file_id, seen) == TRUE

Unseen(file_id, seen) == file_id \notin DOMAIN seen

\* elif dist < unique_dists[seen_file_ids[file_id]]
Better(dist, stored) == dist < stored

\* if len(seen_file_ids) >= self.num_results: break
StopScan(seen, n) == Cardinality(DOMAIN seen) >= n

DedupIdle ==
    /\ num_results = 1
    /\ raw = <<>>
    /\ pos = 0
    /\ seen_file_ids = <<>>
    /\ unique_docs = <<>>
    /\ unique_metas = <<>>
    /\ unique_dists = <<>>
    /\ formatted_results = <<>>
    /\ spc = "idle"

\* The state at the top of the for loop: the store has answered the query for
\* num_results * 10 neighbours.
DedupInit ==
    /\ num_results \in 1..MaxResults
    /\ raw \in SeqsUpTo(RawHits, MaxHits)
    /\ Len(raw) <= num_results * FetchMultiplier
    /\ pos = 0
    /\ seen_file_ids = <<>>
    /\ unique_docs = <<>>
    /\ unique_metas = <<>>
    /\ unique_dists = <<>>
    /\ formatted_results = <<>>
    /\ spc = "scan"

\* One iteration of the for loop over zip(documents, metadatas, distances).
ScanHit ==
    /\ spc = "scan"
    /\ pos < Len(raw)
    /\ LET hit == raw[pos + 1]
           file_id == hit.meta.file_id
       IN  IF GetRaises(hit.meta)
           THEN \* AttributeError, caught by except Exception, re-raised
                /\ spc' = "raised"
                /\ UNCHANGED <<pos, seen_file_ids, unique_docs, unique_metas,
                               unique_dists>>
           ELSE IF MissingFileId(file_id)
           THEN \* continue
                /\ pos' = pos + 1
                /\ UNCHANGED <<seen_file_ids, unique_docs, unique_metas,
                               unique_dists, spc>>
           ELSE /\ pos' = pos + 1
                /\ IF Unseen(file_id, seen_file_ids)
                   THEN /\ seen_file_ids' =
                               [f \in DOMAIN seen_file_ids \cup {file_id} |->
                                   IF f = file_id THEN Len(unique_docs)
                                   ELSE seen_file_ids[f]]
                        /\ unique_docs' = Append(unique_docs, pos + 1)
                        /\ unique_metas' = Append(unique_metas, hit.meta)
                        /\ unique_dists' = Append(unique_dists, hit.dist)
                   ELSE IF Better(hit.dist, unique_dists[seen_file_ids[file_id] + 1])
                   THEN LET idx == seen_file_ids[file_id] + 1
                        IN  /\ unique_docs' = [unique_docs EXCEPT ![idx] = pos + 1]
                            /\ unique_metas' = [unique_metas EXCEPT ![idx] = hit.meta]
                            /\ unique_dists' = [unique_dists EXCEPT ![idx] = hit.dist]
                            /\ UNCHANGED seen_file_ids
                   ELSE UNCHANGED <<seen_file_ids, unique_docs, unique_metas,
                                    unique_dists>>
                /\ spc' = IF StopScan(seen_file_ids', num_results)
                          THEN "format" ELSE "scan"
    /\ UNCHANGED <<num_results, raw, formatted_results>>

\* zip is exhausted: the loop ends without break.
ScanEnd ==
    /\ spc = "scan"
    /\ pos = Len(raw)
    /\ spc' = "format"
    /\ UNCHANGED <<num_results, raw, pos, seen_file_ids, unique_docs,
                   unique_metas, unique_dists, formatted_results>>

\* formatted_results = {...[:self.num_results]...}; return
FormatResults ==
    /\ spc = "format"
    /\ formatted_results' =
           [documents |-> Take(unique_docs, num_results),
            metadatas |-> Take(unique_metas, num_results),
            distances |-> Take(unique_dists, num_results),
            count |-> Len(Take(unique_docs, num_results))]
    /\ spc' = "returned"
    /\ UNCHANGED <<num_results, raw, pos, seen_file_ids, unique_docs,
                   unique_metas, unique_dists>>

\* ------------------------------------------- claims on search_similar
Returned == spc = "returned"

\* the raw hits that carry a file_id
Carrying == {j \in 1..Len(raw) : raw[j].meta.is_dict /\ raw[j].meta.file_id # NoFileId}

DistinctFiles == {raw[j].meta.file_id : j \in Carrying}

RetLen == Len(formatted_results.documents)

\* C1: the hit returned for a file_id is the minimum-distance hit among all
\* hits of the fetched batch that carry that file_id, whatever the order of
\* the batch.
C1_BestHitOfBatch ==
    Returned =>
        \A k \in 1..RetLen : \A j \in Carrying :
            raw[j].meta.file_id = formatted_results.metadatas[k].file_id
                => formatted_results.distances[k] <= raw[j].dist

\* C2: no two returned hits share a file_id.
C2_OneHitPerFile ==
    Returned =>
        \A k1, k2 \in 1..RetLen :
            formatted_results.metadatas[k1].file_id
                    = formatted_results.metadatas[k2].file_id
                => k1 = k2

\* a search returned two files after scanning two chunks of one file
C2_Witness ==
    /\ Returned
    /\ RetLen = 2
    /\ \E j1, j2 \in 1..pos :
           /\ j1 < j2
           /\ raw[j1].meta.file_id = raw[j2].meta.file_id
           /\ raw[j1].meta.file_id # NoFileId

\* C4: the returned distances are non-decreasing, for any raw hit list.
C4_DistancesNonDecreasing ==
    Returned =>
        \A k \in 1..(RetLen - 1) :
            formatted_results.distances[k] <= formatted_results.distances[k + 1]

C6_MissingIdDropped ==
    /\ spc # "raised"
    /\ Returned =>
           \A k \in 1..RetLen : formatted_results.metadatas[k].file_id # NoFileId

\* ============================================ DocumentProcessor.chunk_text
\* range(end, start + chunk_size - 100, -1)
Lookback == 100

\* Characters by class: a letter, a blank, '.' for the terminators '.', '!'
\* and '?' (not whitespace), "n" for the newline (terminator and whitespace).
Chars == {"a", " ", ".", "n"}

\* text[i] in '.!?\n'
IsTerminator(c) == c \in {".", "n"}

\* the characters str.strip() removes
IsSpace(c) == c \in {" ", "n"}

\* text[i] raises IndexError outside -len..len-1
IndexRaises(t, i) == i < -Len(t) \/ i >= Len(t)

\* text[i], negative i counting from the end
PyAt(t, i) == IF i < 0 THEN t[Len(t) + i + 1] ELSE t[i + 1]

\* a slice bound as CPython adjusts it: negative bounds count from the end,
\* then clamp to 0..len
SliceBound(t, b) == IF b < 0 THEN Max2(Len(t) + b, 0) ELSE Min2(b, Len(t))

\* text[lo:hi]
PySliceM(t, lo, hi) == t

PySlice(t, lo, hi) == SubSeq(t, SliceBound(t, lo) + 1, SliceBound(t, hi))

\* str.strip(): the text between its first and its last non-whitespace
\* character, empty when there is none
Strip(t) ==
    IF \A k \in 1..Len(t) : IsSpace(t[k]) THEN <<>>
    ELSE SubSeq(t,
                CHOOSE k \in 1..Len(t) :
                    ~IsSpace(t[k]) /\ \A m \in 1..(k - 1) : IsSpace(t[m]),
                CHOOSE k \in 1..Len(t) :
                    ~IsSpace(t[k]) /\ \A m \in (k + 1)..Len(t) : IsSpace(t[m]))

\* if len(text) <= chunk_size
ShortTextM(t, size) == Len(t) < size

ShortText(t, size) == Len(t) <= size

\* for i in range(from, stop, -1): if text[i] in '.!?\n': ... break
\* The outcome of the loop: the index of the terminator it stops at (the
\* highest one in the range), "none" when the range is exhausted, "raise"
\* when text[i] raises IndexError before a terminator is met (from < len(text)
\* at the call, so only an index below -len raises).
ScanBack(t, from, stop) ==
    LET hits == {i \in Max2(stop + 1, -Len(t))..from : IsTerminator(PyAt(t, i))}
    IN  IF hits # {}
        THEN [kind |-> "found", i |-> CHOOSE i \in hits : \A m \in hits : i >= m]
        ELSE IF stop + 1 <= from /\ IndexRaises(t, stop + 1)
        THEN [kind |-> "raise", i |-> -Len(t) - 1]
        ELSE [kind |-> "none", i |-> stop]

\* the window [start, end) of one iteration: end = start + chunk_size, pulled
\* to i + 1 by the scan when end < len(text); "raise" when the scan raises
Window(t, st, size) ==
    IF st + size < Len(t)
    THEN LET scan == ScanBack(t, st + size, st + size - Lookback)
         IN  IF scan.kind = "found" THEN [kind |-> "ok", end |-> scan.i + 1]
             ELSE IF scan.kind = "raise" THEN [kind |-> "raise", end |-> st + size]
             ELSE [kind |-> "ok", end |-> st + size]
    ELSE [kind |-> "ok", end |-> st + size]

\* start = end - overlap
NextStartM(end, ov) == end + 1

NextStart(end, ov) == end - ov

\* the text: Lookback letters or none, then up to MaxLen characters
Padding(n) == [k \in 1..n |-> "a"]

ChunkInit ==
    /\ \E pad \in {0, Lookback} :
          /\ text \in {Padding(pad) \o t : t \in SeqsUpTo(Chars, MaxLen)}
          /\ chunk_size \in {pad + c : c \in 1..MaxChunk}
    /\ overlap \in 0..MaxOverlap
    /\ start = 0
    /\ chunks = <<>>
    /\ windows = <<>>
    /\ cpc = "entry"

\* if len(text) <= chunk_size: return [text]; chunks = []; start = 0
ChunkEntry ==
    /\ cpc = "entry"
    /\ IF ShortText(text, chunk_size)
       THEN /\ chunks' = <<text>>
            /\ cpc' = "returned"
       ELSE /\ chunks' = <<>>
            /\ cpc' = "loop"
    /\ start' = 0
    /\ UNCHANGED <<text, chunk_size, overlap, windows>>

\* One iteration of "while start < len(text)".
ChunkStep ==
    /\ cpc = "loop"
    /\ Len(windows) < MaxIter
    /\ IF Window(text, start, chunk_size).kind = "raise"
       THEN \* IndexError leaves chunk_text
            /\ cpc' = "raised"
            /\ UNCHANGED <<start, chunks, windows>>
       ELSE LET end == Window(text, start, chunk_size).end
                chunk == Strip(PySlice(text, start, end))
            IN  /\ chunks' = IF chunk # <<>> THEN Append(chunks, chunk) ELSE chunks
                /\ windows' = Append(windows, <<start, end>>)
                /\ start' = NextStart(end, overlap)
                /\ cpc' = IF start' >= Len(text) THEN "returned" ELSE "loop"
    /\ UNCHANGED <<text, chunk_size, overlap>>

\* ---------------------------------------------- claims on chunk_text
ChunkReturned == cpc = "returned"

\* C7: the scan position strictly advances on every iteration of the while
\* loop (so the loop ends), for every chunk_size > 0 and overlap >= 0.
C7_ScanAdvances ==
    [][cpc = "loop" /\ cpc' \in {"loop", "returned"} => start' > start]_vars

\* C8: no element of the returned sequence is the empty string.
C8_NoEmptyChunk ==
    ChunkReturned => \A k \in 1..Len(chunks) : chunks[k] # <<>>

\* C9: a text with len(text) <= chunk_size gives exactly one chunk, equal to
\* the text.
C9_ShortTextOneChunk ==
    (ChunkReturned /\ Len(text) <= chunk_size) => chunks = <<text>>

\* a text of exactly chunk_size characters that strip() would change came
\* back as it was
C9_Witness ==
    /\ ChunkReturned
    /\ Len(text) = chunk_size
    /\ IsSpace(text[Len(text)])
    /\ overlap > 0
    /\ chunks = <<text>>

\* position p of the text lies in window w
InWindow(p, w) == w[1] <= p /\ p < w[2]

C11_BoundaryOnlyPulledBack ==
    /\ \A k \in 1..Len(windows) :
           /\ windows[k][1] + chunk_size - Lookback < windows[k][2]
           /\ windows[k][2] <= windows[k][1] + chunk_size
    /\ \A k \in 1..Len(chunks) : Len(chunks[k]) <= chunk_size

\* ============================================ AISearchService.hybrid_search
\* Scores are in tenths (similarity 0.7 is 7), combined scores in hundredths.

\* Python's None for an Optional field is the empty sequence, a value v is <<v>>.
None == <<>>

Some(v) == <<v>>

\* a chunk of the collection: its metadata's file_id and its distance to the
\* query (store_in_vector_db writes file_id into every chunk's metadata)
StoreHits ==
    [file_id : 1..MaxStoreFile, dist : {d * DistStep * 10 : d \in 0..MaxStoreDist}]

\* AISearchRequest with a query and a result count in the given sets
RequestsOf(queries, counts) ==
    [query : queries, n_results : counts, use_ai_enhancement : BOOLEAN,
     rerank_with_ai : BOOLEAN, include_explanations : BOOLEAN]

Requests == RequestsOf({"original"}, 1..MaxN)

\* model.generate for enhance_query: raises, or returns text that strip()
\* leaves as a query, as the empty string, or as an over-long string
EnhanceOutcomes == {"raise", "enhanced", "", "long"}

\* enhance_query: the stripped output, the original query when generate raises
EnhanceQuery(original_query, outcome) ==
    IF outcome = "raise" THEN original_query ELSE outcome

\* Scores are fixed-point numbers: Scale stands for 1.0, so that a distance
\* of a hundred-thousandth is 10 and the fourth decimal is 100.
Scale == 1000000

\* A token of relevance_response.strip().split(): a text float() converts to
\* the number val or to nan, or a text float() rejects.
Num(v) == [num |-> TRUE, nan |-> FALSE, val |-> v]

NaN == [num |-> TRUE, nan |-> TRUE, val |-> 0]

Word == [num |-> FALSE, nan |-> FALSE, val |-> 0]

\* model.generate for ai_rerank_result: raises, or returns tokens
RerankOutcomes ==
    {[raises |-> TRUE, out |-> <<>>],
     [raises |-> FALSE, out |-> <<Num(9)>>],
     [raises |-> FALSE, out |-> <<Num(0)>>],
     [raises |-> FALSE, out |-> <<Word, Num(9)>>],
     [raises |-> FALSE, out |-> <<>>]}

\* the call is not made when reranking is not requested
NoRerank == [raises |-> FALSE, out |-> <<>>]

\* ai_rerank_result takes its except branch: generate, the indexing of an
\* empty split() or float() raises
RerankFails(outcome) ==
    outcome.raises \/ outcome.out = <<>> \/ ~outcome.out[1].num

\* max(1.0, min(10.0, ai_score)); min(10.0, nan) is 10.0, as nan < 10.0 is
\* false
ClampM(x) == IF x.nan THEN 10 ELSE x.val

Clamp(x) == IF x.nan THEN 10 ELSE Max2(1, Min2(10, x.val))

\* ai_rerank_result: float(split()[0]) clamped to 1..10, over 10; 0.5 when
\* generate, the indexing or float() raises
AIRerankResultM(outcome) ==
    IF RerankFails(outcome)
    THEN Scale \div 10
    ELSE (Clamp(outcome.out[1]) * Scale) \div 10

AIRerankResult(outcome) ==
    IF RerankFails(outcome)
    THEN Scale \div 2
    ELSE (Clamp(outcome.out[1]) * Scale) \div 10

\* generate_relevance_explanation: the stripped text, a canned sentence when
\* generate raises
ExplainOutcomes == {"raise", "text"}

RelevanceExplanation(outcome) == IF outcome = "raise" THEN "canned" ELSE "explained"

\* initial_count = request.n_results * 2 if request.rerank_with_ai else ...
InitialCount(req) == IF req.rerank_with_ai THEN req.n_results * 2 ELSE req.n_results

\* DocumentProcessor.search_similar_documents: the n nearest chunks as the
\* collection returns them, empty lists when the query raises
SearchSimilarDocuments(st, n, query_ok) ==
    IF query_ok
    THEN [k \in 1..Min2(n, Len(st)) |->
             [id |-> k, metadata |-> [file_id |-> st[k].file_id], dist |-> st[k].dist]]
    ELSE <<>>

\* similarity_score = 1 - distance
SimilarityScore(dist) == Scale - dist

\* combined_score = (similarity_score * 0.6) + (ai_score * 0.4); the scores
\* are multiples of 10, which makes the division exact
CombinedScoreM(sim, ai) == (sim * 4 + ai * 6) \div 10

CombinedScore(sim, ai) == (sim * 6 + ai * 4) \div 10

\* round(x, 4): the nearest multiple of the fourth decimal, the even one of
\* two that are equally near
Round4(x) ==
    LET q == Scale \div 10000
        lo == (x \div q) * q
    IN  IF 2 * (x - lo) < q THEN lo
        ELSE IF 2 * (x - lo) > q THEN lo + q
        ELSE IF (x \div q) % 2 = 0 THEN lo ELSE lo + q

ScoresM(dist, reranked, ai_score) ==
    [similarity_score |-> Round4(Scale - dist),
     ai_relevance_score |-> None,
     combined_score |-> Some(Round4(((Scale - dist) * 6 + ai_score * 4) \div 10))]

\* the scores hybrid_search stores on a hit at that distance: the rounded
\* similarity, and with reranking the rounded relevance and the rounded
\* fusion of the unrounded scores
Scores(dist, reranked, ai_score) ==
    [similarity_score |-> Round4(SimilarityScore(dist)),
     ai_relevance_score |-> IF reranked THEN Some(Round4(ai_score)) ELSE None,
     combined_score |->
         IF reranked
         THEN Some(Round4(CombinedScore(SimilarityScore(dist), ai_score)))
         ELSE None]

\* list.sort(key=..., reverse=True) is stable: the elements with equal keys
\* keep their order.  keys[k] is the key of the k-th element; InsertDesc puts
\* index j after the indices whose key is >= its own.
RECURSIVE InsertDesc(_, _, _)
InsertDesc(order, j, keys) ==
    IF order = <<>> THEN <<j>>
    ELSE IF keys[Head(order)] >= keys[j]
    THEN <<Head(order)>> \o InsertDesc(Tail(order), j, keys)
    ELSE <<j>> \o order

RECURSIVE SortOrder(_, _)
SortOrder(keys, n) ==
    IF n = 0 THEN <<>> ELSE InsertDesc(SortOrder(keys, n - 1), n, keys)

SortDescM(s, keys) == s

SortDesc(s, keys) == [k \in 1..Len(s) |-> s[SortOrder(keys, Len(s))[k]]]

\* key=lambda x: x.combined_score
CombinedKeys(s) == [k \in 1..Len(s) |-> s[k].combined_score[1]]

\* key=lambda x: x.similarity_score
SimilarityKeys(s) == [k \in 1..Len(s) |-> s[k].similarity_score]

\* an external call (the language model, the embedding model, the vector
\* store) and whether it failed
Call(name, failed) == [call |-> name, failed |-> failed]

HybridIdle ==
    /\ request = [query |-> "original", n_results |-> 1,
                  use_ai_enhancement |-> FALSE,
                  rerank_with_ai |-> FALSE, include_explanations |-> FALSE]
    /\ store = <<>>
    /\ search_query = "original"
    /\ search_results = <<>>
    /\ processed_results = <<>>
    /\ response = <<>>
    /\ hpc = "idle"
    /\ calls = <<>>

\* hybrid_search is entered with the given requests
HybridEntry(requests) ==
    /\ request \in requests
    /\ store \in SeqsUpTo(StoreHits, MaxStore)
    /\ search_query = request.query
    /\ search_results = <<>>
    /\ processed_results = <<>>
    /\ response = <<>>
    /\ hpc = "enhance"
    /\ calls = <<>>

HybridInit == HybridEntry(Requests)

\* Step 1: search_query = request.query, enhanced if requested
Enhance ==
    /\ hpc = "enhance"
    /\ IF request.use_ai_enhancement
       THEN \E outcome \in EnhanceOutcomes :
                /\ search_query' = EnhanceQuery(request.query, outcome)
                /\ calls' = Append(calls, Call("enhance_query", outcome = "raise"))
       ELSE /\ search_query' = request.query
            /\ UNCHANGED calls
    /\ hpc' = "search"
    /\ UNCHANGED <<request, store, search_results, processed_results, response>>

\* Step 2: embedding_model.encode (an exception leaves hybrid_search), then
\* search_similar_documents
Search ==
    /\ hpc = "search"
    /\ \E encode_ok, query_ok \in BOOLEAN :
          IF encode_ok
          THEN /\ search_results' =
                      SearchSimilarDocuments(store, InitialCount(request), query_ok)
               /\ calls' = calls \o <<Call("encode", FALSE),
                                       Call("search_similar_documents", ~query_ok)>>
               /\ hpc' = "process"
          ELSE /\ hpc' = "raised"
               /\ calls' = Append(calls, Call("encode", TRUE))
               /\ UNCHANGED search_results
    /\ UNCHANGED <<request, store, search_query, processed_results, response>>

\* Steps 3 to 5: one iteration of "for i in range(len(search_results["ids"]))"
ProcessResult ==
    /\ hpc = "process"
    /\ Len(processed_results) < Len(search_results)
    /\ \E rerank \in IF request.rerank_with_ai
                      THEN RerankOutcomes ELSE {NoRerank},
          explain \in IF request.include_explanations
                       THEN ExplainOutcomes ELSE {"none"} :
          LET hit == search_results[Len(processed_results) + 1]
              scores == Scores(hit.dist, request.rerank_with_ai,
                               AIRerankResult(rerank))
              result ==
                  [id |-> hit.id,
                   metadata |-> hit.metadata,
                   similarity_score |-> scores.similarity_score,
                   enhanced_query |->
                       IF request.use_ai_enhancement THEN Some(search_query) ELSE None,
                   ai_relevance_score |-> scores.ai_relevance_score,
                   combined_score |-> scores.combined_score,
                   relevance_explanation |->
                       IF request.include_explanations
                       THEN Some(RelevanceExplanation(explain)) ELSE None]
          IN  /\ processed_results' = Append(processed_results, result)
              /\ calls' = calls
                     \o (IF request.rerank_with_ai
                         THEN <<Call("ai_rerank_result", RerankFails(rerank))>>
                         ELSE <<>>)
                     \o (IF request.include_explanations
                         THEN <<Call("generate_relevance_explanation",
                                     explain = "raise")>>
                         ELSE <<>>)
    /\ UNCHANGED <<request, store, search_query, search_results, response, hpc>>

\* Steps 6 and 7: sort, keep the first n_results, build the response
Respond ==
    /\ hpc = "process"
    /\ Len(processed_results) = Len(search_results)
    /\ LET sorted == IF request.rerank_with_ai
                     THEN SortDesc(processed_results, CombinedKeys(processed_results))
                     ELSE SortDesc(processed_results,
                                   SimilarityKeys(processed_results))
       IN  response' =
               [results |-> PySlice(sorted, 0, request.n_results),
                enhanced_query |->
                    IF request.use_ai_enhancement THEN Some(search_query) ELSE None,
                search_metadata |->
                    [total_candidates |-> Len(search_results),
                     ai_enhancement_used |-> request.use_ai_enhancement,
                     ai_reranking_used |-> request.rerank_with_ai,
                     explanations_included |-> request.include_explanations]]
    /\ hpc' = "responded"
    /\ UNCHANGED <<request, store, search_query, search_results, processed_results,
                   calls>>

\* ------------------------------------------- claims on hybrid_search
Responded == hpc = "responded"

\* C3: no two hits of a hybrid_search response come from the same source
\* document.
C3_DistinctDocuments ==
    Responded =>
        \A k1, k2 \in 1..Len(response.results) :
            response.results[k1].metadata.file_id
                    = response.results[k2].metadata.file_id
                => k1 = k2

\* the call of that name was made and failed
CallFailed(name) == \E k \in 1..Len(calls) : calls[k] = Call(name, TRUE)

\* C13: when enhancement is requested and the enhancer fails, hybrid_search
\* still responds with results computed from the original query and its
\* metadata reports ai_enhancement_used = false.
C13_FailedEnhancementReported ==
    Responded /\ CallFailed("enhance_query") =>
        /\ search_query = request.query
        /\ response.search_metadata.ai_enhancement_used = FALSE

\* C14: a failure of the vector-store query is fatal: hybrid_search never
\* ends with a successful response after it.
C14_StoreFailureIsFatal ==
    CallFailed("search_similar_documents") => ~Responded

\* a request with an empty query or a non-positive result count;
\* AISearchRequest declares query: str and n_results: int with no validator
IsInvalid(req) == req.query = "" \/ req.n_results <= 0

InvalidRequests ==
    {req \in RequestsOf({"", "original"}, -1..MaxN) : IsInvalid(req)}

\* C15: a request with an empty query or a non-positive result count is
\* rejected before any external call (language model, embedding, vector
\* store) is made, and is never answered.
C15_InvalidRejectedBeforeCalls ==
    IsInvalid(request) => calls = <<>> /\ ~Responded

\* the ai_rerank_result calls, one per processed candidate, in order
RerankCalls == SelectSeq(calls, LAMBDA c : c.call = "ai_rerank_result")

\* C17: when the reranker's model output for a candidate is non-numeric or
\* empty, or the call raises, that candidate's relevance score is 0.5, the
\* other candidates are still scored, and hybrid_search does not raise.
C17_FailedRerankIsNeutral ==
    /\ CallFailed("ai_rerank_result") => hpc \in {"process", "responded"}
    /\ request.rerank_with_ai /\ hpc \in {"process", "responded"} =>
           /\ Len(RerankCalls) = Len(processed_results)
           /\ \A k \in 1..Len(processed_results) :
                  /\ processed_results[k].ai_relevance_score # None
                  /\ processed_results[k].combined_score # None
                  /\ RerankCalls[k].failed =>
                         processed_results[k].ai_relevance_score = Some(Scale \div 2)

\* hybrid_search answered after one candidate's rerank failed and another
\* candidate got the model's 9
C17_Witness ==
    /\ Responded
    /\ \E k, j \in 1..Len(RerankCalls) :
           /\ RerankCalls[k].failed
           /\ ~RerankCalls[j].failed
           /\ processed_results[j].ai_relevance_score = Some((9 * Scale) \div 10)

\* the sort key of a hit of the response
SortKey(hit) ==
    IF request.rerank_with_ai THEN hit.combined_score[1] ELSE hit.similarity_score

\* hit x goes before hit y: a greater key, or the same key and an earlier
\* place in the vector store's answer
Before(x, y) ==
    \/ SortKey(x) > SortKey(y)
    \/ SortKey(x) = SortKey(y) /\ x.id < y.id

\* C19: the returned hits are in non-increasing order of combined_score if
\* reranking was requested, of similarity_score otherwise; hits with equal
\* keys keep their vector-store order; the order is a function of the
\* computed scores alone: the response is the head of that order.
C19_FinalOrdering ==
    Responded =>
        LET res == response.results
        IN  /\ Len(res) = Min2(request.n_results, Len(processed_results))
            /\ \A i, j \in 1..Len(res) : i < j => Before(res[i], res[j])
            /\ \A i \in 1..Len(res) :
                   \E k \in 1..Len(processed_results) : res[i] = processed_results[k]
            /\ \A k \in 1..Len(processed_results) :
                   (\A i \in 1..Len(res) : res[i] # processed_results[k])
                       => \A i \in 1..Len(res) : Before(res[i], processed_results[k])

\* the sort moved a later candidate in front of an earlier one
C19_Witness ==
    /\ Responded
    /\ Len(response.results) >= 2
    /\ response.results[1].id > response.results[2].id

\* C21: each optional field of a response is set exactly when its stage was
\* requested: a hit has ai_relevance_score and combined_score iff
\* rerank_with_ai, relevance_explanation iff include_explanations, and
\* enhanced_query is set iff use_ai_enhancement.
C21_FieldsFollowRequest ==
    Responded =>
        /\ (response.enhanced_query # None) = request.use_ai_enhancement
        /\ \A k \in 1..Len(response.results) :
               LET hit == response.results[k]
               IN  /\ (hit.ai_relevance_score # None) = request.rerank_with_ai
                   /\ (hit.combined_score # None) = request.rerank_with_ai
                   /\ (hit.relevance_explanation # None) = request.include_explanations
                   /\ (hit.enhanced_query # None) = request.use_ai_enhancement

\* a response with a hit, reranked and enhanced but without explanations
C21_Witness ==
    /\ Responded
    /\ request.rerank_with_ai
    /\ request.use_ai_enhancement
    /\ ~request.include_explanations
    /\ Len(response.results) >= 1

\* C22: the response holds at most n_results hits.
C22_AtMostNResults ==
    Responded => Len(response.results) <= request.n_results

\* more candidates were scored than asked for, and the response was cut
C22_Witness ==
    /\ Responded
    /\ Len(processed_results) > request.n_results
    /\ Len(response.results) = request.n_results

\* the generate_relevance_explanation calls, one per processed candidate
ExplainCalls ==
    SelectSeq(calls, LAMBDA c : c.call = "generate_relevance_explanation")

\* C23: a failure of the reranker or of the explainer skips that stage:
\* after a reranker failure the hits are in similarity-only order, after an
\* explanation failure the hit carries no explanation, and the request
\* still succeeds.
C23_FailedStageSkipped ==
    /\ CallFailed("ai_rerank_result") \/ CallFailed("generate_relevance_explanation")
           => hpc \in {"process", "responded"}
    /\ Responded /\ CallFailed("ai_rerank_result") =>
           \A i, j \in 1..Len(response.results) :
               i < j => response.results[i].similarity_score
                            >= response.results[j].similarity_score
    /\ Responded /\ request.include_explanations =>
           \A k \in 1..Len(processed_results) :
               ExplainCalls[k].failed => processed_results[k].relevance_explanation = None

\* C26: the per-candidate language-model calls of a request are issued
\* concurrently, at most 8 in flight: a later candidate's call is issued
\* before an earlier one has completed.  hybrid_search awaits each call
\* before its next statement, so calls holds the calls issued so far, all
\* of them completed; with concurrent issue, as soon as one rerank call has
\* completed the calls of all candidates (up to 8) have been issued.
C26_CallsConcurrent ==
    request.rerank_with_ai /\ hpc = "process" /\ Len(RerankCalls) >= 1 =>
        Len(RerankCalls) >= Min2(Len(search_results), 8)

\* C28: the stages run in the order Enhance, Embed, VectorSearch, Rerank,
\* Explain, Respond: every rerank call completes before the first
\* explanation call starts.
C28_RerankBeforeExplain ==
    \A i, j \in 1..Len(calls) :
        /\ calls[i].call = "generate_relevance_explanation"
        /\ calls[j].call = "ai_rerank_result"
        => j < i

\* ======================================================= the query enhancers
\* if 0 < len(enhanced_query) < 500
SanityBound == 500

Blanks(n) == [k \in 1..n |-> " "]

\* the lengths of the model's output once stripped: short ones, and the
\* ones around the sanity bound
BodyLens == 0..MaxBody \cup {SanityBound - 1, SanityBound, SanityBound + 1}

\* generate(...) for a query enhancer: it raises, or returns text with or
\* without blanks around it
GenerateOutcomes ==
    {[raises |-> TRUE, out |-> <<>>]}
        \cup {[raises |-> FALSE, out |-> Blanks(lead) \o Padding(n) \o Blanks(trail)] :
                 lead \in 0..1, n \in BodyLens, trail \in 0..1}

Queries == SeqsUpTo({"a", " "}, MaxQuery)

\* what a call gives its caller
Return(v) == [raised |-> FALSE, value |-> v]

\* the sanity check of _enhance_search_query
ValidEnhanced(q) == 0 < Len(q) /\ Len(q) < SanityBound

\* app/main.py _enhance_search_query: the stripped output when it passes the
\* sanity check, the original query otherwise and when generate raises
EnhanceSearchQuery(original_query, outcome) ==
    IF outcome.raises THEN Return(original_query)
    ELSE IF ValidEnhanced(Strip(outcome.out)) THEN Return(Strip(outcome.out))
    ELSE Return(original_query)

\* AISearchService.enhance_query: the stripped output, the original query
\* when generate raises
EnhanceQueryText(original_query, outcome) ==
    IF outcome.raises THEN Return(original_query)
    ELSE Return(Strip(outcome.out))

FnIdle ==
    /\ fn_args = <<>>
    /\ fn_result = <<>>
    /\ fn_pc = "idle"

EnhanceInit ==
    /\ fn_args \in [original_query : Queries, outcome : GenerateOutcomes]
    /\ fn_result = <<>>
    /\ fn_pc = "enhance"

\* one call of each enhancer on the same query and model outcome
EnhanceCall ==
    /\ fn_pc = "enhance"
    /\ fn_result' =
           [search_query |-> EnhanceSearchQuery(fn_args.original_query, fn_args.outcome),
            enhance_query |-> EnhanceQueryText(fn_args.original_query, fn_args.outcome)]
    /\ fn_pc' = "enhanced"
    /\ UNCHANGED fn_args

\* ---------------------------------------- claims on the query enhancers
\* the model call failed: it raised, or its output is empty, whitespace-only
\* or longer than the sanity bound
EnhancerFailed ==
    \/ fn_args.outcome.raises
    \/ Strip(fn_args.outcome.out) = <<>>
    \/ Len(Strip(fn_args.outcome.out)) > SanityBound

\* C12: both enhancers return the original query unchanged whenever the
\* model call raises, returns empty or whitespace-only output, or output
\* longer than 500 characters; neither raises.
C12_EnhancersFallBack ==
    fn_pc = "enhanced" =>
        /\ ~fn_result.search_query.raised
        /\ ~fn_result.enhance_query.raised
        /\ EnhancerFailed =>
               /\ fn_result.search_query.value = fn_args.original_query
               /\ fn_result.enhance_query.value = fn_args.original_query

\* ================================================ ai_rerank_result, alone
Tokens == {Num(v) : v \in (0 - MaxScore)..MaxScore} \cup {NaN, Word}

\* model.generate for ai_rerank_result: raises, or returns any tokens
RerankTexts ==
    {[raises |-> TRUE, out |-> <<>>]}
        \cup {[raises |-> FALSE, out |-> out] : out \in SeqsUpTo(Tokens, MaxTokens)}

RerankInit ==
    /\ fn_args \in [outcome : RerankTexts]
    /\ fn_result = <<>>
    /\ fn_pc = "rerank"

RerankCall ==
    /\ fn_pc = "rerank"
    /\ fn_result' = Return(AIRerankResult(fn_args.outcome))
    /\ fn_pc' = "reranked"
    /\ UNCHANGED fn_args

\* ------------------------------------------- claims on ai_rerank_result
Reranked == fn_pc = "reranked"

\* C16: ai_rerank_result returns a relevance in [0,1] for every model output
\* (numeric in or out of range, non-numeric, empty) and for a raising call.
C16_RelevanceInUnitInterval ==
    Reranked => ~fn_result.raised /\ fn_result.value \in 0..Scale

\* a number above the rating scale came back as 1.0
C16_Witness ==
    /\ Reranked
    /\ ~RerankFails(fn_args.outcome)
    /\ ~fn_args.outcome.out[1].nan
    /\ fn_args.outcome.out[1].val > 10
    /\ fn_result.value = Scale

\* the tokens of the rating scale 1..10 in the output, in order
InScale(tok) == tok.num /\ ~tok.nan /\ tok.val \in 1..10

\* C18: whenever the output contains a numeric token of the rating scale,
\* the score is the first such number over 10, whatever non-numeric tokens
\* precede it ('Score: 8' gives 0.8).
C18_FirstNumericToken ==
    Reranked /\ ~fn_args.outcome.raises =>
        \A k \in 1..Len(fn_args.outcome.out) :
            /\ InScale(fn_args.outcome.out[k])
            /\ \A j \in 1..(k - 1) : ~fn_args.outcome.out[j].num
            => fn_result.value = (fn_args.outcome.out[k].val * Scale) \div 10

\* ============================================ the score fusion, alone
\* a candidate: its distance and the relevance ai_rerank_result gave it
\* (the distances near 0 in hundred-thousandths, and the cosine distances
\* 0, 0.5, 1, 1.5 and 2)
Candidates ==
    [dist : {10 * d : d \in 0..MaxFine} \cup {d * (Scale \div 2) : d \in 0..4},
     ai_score : {(t * Scale) \div 10 : t \in 1..10}]

FuseInit ==
    /\ fn_args \in [a : Candidates, b : Candidates]
    /\ fn_result = <<>>
    /\ fn_pc = "fuse"

\* steps 3 and 4 of hybrid_search on two candidates
FuseCall ==
    /\ fn_pc = "fuse"
    /\ fn_result' = [a |-> Scores(fn_args.a.dist, TRUE, fn_args.a.ai_score),
                     b |-> Scores(fn_args.b.dist, TRUE, fn_args.b.ai_score)]
    /\ fn_pc' = "fused"
    /\ UNCHANGED fn_args

\* ------------------------------------------- claims on the score fusion
Fused == fn_pc = "fused"

Abs(x) == IF x < 0 THEN 0 - x ELSE x

\* c is similarity * 0.6 + relevance * 0.4 to four decimals: a multiple of
\* the fourth decimal at most half of it away from the weighted sum
IsFusion(c, cand) ==
    /\ c % (Scale \div 10000) = 0
    /\ 2 * Abs(10 * c - (6 * (Scale - cand.dist) + 4 * cand.ai_score))
           <= 10 * (Scale \div 10000)

\* C20: combined_score = similarity_score * 0.6 + ai_relevance_score * 0.4
\* for every reranked hit, and the stored, rounded combined_score is
\* non-decreasing in the similarity for a fixed relevance and in the
\* relevance for a fixed similarity.
C20_FusionMonotone ==
    Fused =>
        /\ IsFusion(fn_result.a.combined_score[1], fn_args.a)
        /\ IsFusion(fn_result.b.combined_score[1], fn_args.b)
        /\ (fn_args.a.ai_score = fn_args.b.ai_score /\ fn_args.a.dist >= fn_args.b.dist)
               => fn_result.a.combined_score[1] <= fn_result.b.combined_score[1]
        /\ (fn_args.a.dist = fn_args.b.dist /\ fn_args.a.ai_score <= fn_args.b.ai_score)
               => fn_result.a.combined_score[1] <= fn_result.b.combined_score[1]

\* two candidates of the same relevance whose similarities differ by less
\* than the rounding shows: the stored combined scores are equal
C20_Witness ==
    /\ Fused
    /\ fn_args.a.ai_score = fn_args.b.ai_score
    /\ fn_args.a.dist > fn_args.b.dist
    /\ fn_result.a.similarity_score < fn_result.b.similarity_score
    /\ fn_result.a.combined_score = fn_result.b.combined_score

\* ===================================== OllamaService.embed_text and /search
\* DEFAULT_EMBEDDING_DIMENSION = 384
EmbeddingDimension == 384

\* a lone surrogate: a character of a str that str.encode() rejects
Surrogate == "surrogate"

EmbedChars == {"a", "b", Surrogate}

EmbedTexts == SeqsUpTo(EmbedChars, MaxText)

Raise(e) == [raised |-> TRUE, value |-> e]

\* POST /api/embeddings: a request error, a timeout, another exception (a
\* body that is not a JSON object), an empty vector, or a vector
ProviderOutcomes == {"RequestException", "Timeout", "Exception", "empty", "vector"}

\* the provider's vector
ProviderVector == <<1, 2>>

\* text.encode() raises UnicodeEncodeError on a lone surrogate
EncodeRaises(t) == \E k \in 1..Len(t) : t[k] = Surrogate

CharCode(c) == IF c = "a" THEN 97 ELSE 98

RECURSIVE SumCodes(_, _)
SumCodes(t, k) ==
    IF t = <<>> THEN 0 ELSE CharCode(Head(t)) * k + SumCodes(Tail(t), k + 1)

\* hashlib.md5(...).hexdigest() read two digits at a time: 16 bytes that
\* depend on the text alone (the digest is a fixed function of the text; its
\* values are not MD5's)
DigestBytes(t) == [k \in 1..16 |-> (SumCodes(t, k) + Len(t)) % 256]

\* _simple_embedding: the digest's bytes over 255 (kept as the bytes), padded
\* with 0.0 to the dimension and cut to it
SimpleEmbedding(t) ==
    IF EncodeRaises(t) THEN Raise("UnicodeEncodeError")
    ELSE Return(Take(DigestBytes(t) \o [k \in 1..EmbeddingDimension |-> 0],
                     EmbeddingDimension))

\* embed_text: ValueError on an empty text, the provider's vector, the
\* fallback when the call raises or the vector is empty
EmbedText(t, provider) ==
    IF t = <<>> THEN Raise("ValueError")
    ELSE IF provider = "vector" THEN Return(ProviderVector)
    ELSE SimpleEmbedding(t)

\* generate(...) for the /search enhancer: it raises or returns a text
SearchEnhanceOutcomes ==
    {[raises |-> TRUE, out |-> <<>>], [raises |-> FALSE, out |-> <<"a", "b">>]}

\* search_documents: enhance, embed, query the vector store, answer with
\* results and processing_time; any exception becomes a 500.  served_by
\* records which embedding the vector query ran on.
SearchDocuments(query, enhance, provider, found, store_ok) ==
    LET query_to_embed == EnhanceSearchQuery(query, enhance).value
        query_embedding == EmbedText(query_to_embed, provider)
    IN  IF query_embedding.raised \/ ~store_ok
        THEN [status |-> 500, body |-> [detail |-> "Search failed"],
              served_by |-> "none"]
        ELSE [status |-> 200,
              body |-> [results |-> [k \in 1..found |-> "hit"],
                        processing_time |-> 0],
              served_by |-> IF provider = "vector" THEN "provider" ELSE "fallback"]

EmbedInit ==
    /\ fn_args \in [text : EmbedTexts, provider : ProviderOutcomes,
                     again : ProviderOutcomes, enhance : SearchEnhanceOutcomes,
                     found : 0..MaxFound, store_ok : BOOLEAN]
    /\ fn_result = <<>>
    /\ fn_pc \in {"embed", "search"}

\* two calls of embed_text on the same text
EmbedCall ==
    /\ fn_pc = "embed"
    /\ fn_result' = [first |-> EmbedText(fn_args.text, fn_args.provider),
                     second |-> EmbedText(fn_args.text, fn_args.again)]
    /\ fn_pc' = "embedded"
    /\ UNCHANGED fn_args

\* POST /search; SearchRequest lets no empty query through
SearchCall ==
    /\ fn_pc = "search"
    /\ fn_args.text # <<>>
    /\ fn_result' = SearchDocuments(fn_args.text, fn_args.enhance, fn_args.provider,
                                    fn_args.found, fn_args.store_ok)
    /\ fn_pc' = "searched"
    /\ UNCHANGED fn_args

\* ------------------------------------ claims on embed_text and /search
\* C24: embed_text never raises on a non-empty text; when the provider call
\* fails, times out or returns an empty vector it returns the fallback
\* vector, which has 384 components and depends on the text alone.
C24_EmbedNeverRaises ==
    fn_pc = "embedded" /\ fn_args.text # <<>> =>
        /\ ~fn_result.first.raised
        /\ fn_args.provider # "vector" =>
               Len(fn_result.first.value) = EmbeddingDimension
        /\ fn_args.provider # "vector" /\ fn_args.again # "vector" =>
               fn_result.first = fn_result.second

\* C25: whenever a search request was served with the fallback embedding,
\* its response flags the degraded path in its metadata.
C25_FallbackFlagged ==
    fn_pc = "searched" /\ fn_result.served_by = "fallback" =>
        "search_metadata" \in DOMAIN fn_result.body

\* C27: every hit has similarity_score = 1 - distance (to four decimals)
\* and similarity_score in [0,1], for every distance the cosine-distance
\* store can return.
C27_SimilarityInUnitInterval ==
    Fused =>
        /\ 2 * Abs(fn_result.a.similarity_score - (Scale - fn_args.a.dist))
               <= Scale \div 10000
        /\ fn_result.a.similarity_score \in 0..Scale

\* ================================================ the /chroma handlers
\* raise HTTPException(status_code=...)
HttpException(status) == [raised |-> TRUE, status |-> status, body |-> <<>>]

\* return {...}
Ok(body) == [raised |-> FALSE, status |-> 200, body |-> body]

\* "except Exception as e: raise HTTPException(status_code=500, ...)" around
\* a handler's body; HTTPException is an Exception
Caught(r) == IF r.raised THEN HttpException(500) ELSE r

\* a request: each field missing or given; a chunk is TRUE when its
\* embedding and its add_document succeed
ChromaRequests ==
    [file_id : {None, Some(1)}, file_name : {None, Some("f")},
     chunks : SeqsUpTo(BOOLEAN, MaxAddChunks),
     query : {None, Some("q")}, embed_ok : BOOLEAN]

\* not all([file_id, file_name, chunks])
AddMissing(req) == req.file_id = None \/ req.file_name = None \/ req.chunks = <<>>

\* the body of add_to_chroma: a chunk that fails is logged and skipped
AddBody(req) ==
    IF AddMissing(req) THEN HttpException(400)
    ELSE Ok([success |-> TRUE,
             added_count |-> Cardinality({k \in 1..Len(req.chunks) : req.chunks[k]}),
             total_chunks |-> Len(req.chunks)])

AddToChroma(req) == Caught(AddBody(req))

\* the body of search_chroma: search_similar has no n_results parameter, so
\* the call raises TypeError whenever it is reached
SearchBody(req) ==
    IF req.query = None THEN HttpException(400)
    ELSE IF ~req.embed_ok THEN HttpException(500)
    ELSE HttpException(500)

SearchChroma(req) == Caught(SearchBody(req))

ChromaInit ==
    /\ fn_args \in ChromaRequests
    /\ fn_result = <<>>
    /\ fn_pc \in {"add", "search_chroma"}

AddCall ==
    /\ fn_pc = "add"
    /\ fn_result' = AddToChroma(fn_args)
    /\ fn_pc' = "added"
    /\ UNCHANGED fn_args

SearchChromaCall ==
    /\ fn_pc = "search_chroma"
    /\ fn_result' = SearchChroma(fn_args)
    /\ fn_pc' = "searched_chroma"
    /\ UNCHANGED fn_args

\* ------------------------------------------ claims on the /chroma handlers
\* C29: /chroma/add and /chroma/search answer a request with missing
\* required fields with status 400, which reaches the caller as raised.
C29_MissingFieldsGive400 ==
    /\ fn_pc = "added" /\ AddMissing(fn_args) =>
           fn_result.raised /\ fn_result.status = 400
    /\ fn_pc = "searched_chroma" /\ fn_args.query = None =>
           fn_result.raised /\ fn_result.status = 400

\* ================================================== delete_from_chroma
\* for i in range(100)
DeleteRange == 100

DeleteInit ==
    /\ fn_args \in [file_id : FileIds]
    /\ fn_result = [i |-> 0, deleted_count |-> 0, delete_calls |-> 0, broke |-> FALSE]
    /\ fn_pc = "delete"

\* one iteration: delete_document(doc_id) reports success or failure; a
\* failure at an index above 0 leaves the loop and the handler returns
DeleteStep ==
    /\ fn_pc = "delete"
    /\ fn_result.i < DeleteRange
    /\ \E deleted \in BOOLEAN :
          IF deleted
          THEN /\ fn_result' = [fn_result EXCEPT !.i = @ + 1, !.deleted_count = @ + 1,
                                                 !.delete_calls = @ + 1]
               /\ fn_pc' = "delete"
          ELSE IF fn_result.i > 0
          THEN /\ fn_result' = [fn_result EXCEPT !.delete_calls = @ + 1,
                                                 !.broke = TRUE]
               /\ fn_pc' = "deleted"
          ELSE /\ fn_result' = [fn_result EXCEPT !.i = @ + 1, !.delete_calls = @ + 1]
               /\ fn_pc' = "delete"
    /\ UNCHANGED fn_args

\* the range is exhausted: return {"success": True, "deleted_count": ...}
DeleteReturn ==
    /\ fn_pc = "delete"
    /\ fn_result.i = DeleteRange
    /\ fn_pc' = "deleted"
    /\ UNCHANGED <<fn_args, fn_result>>

\* ------------------------------------------ claims on delete_from_chroma
\* C30: the scan stops early at a failed delete only if at least one chunk
\* has already been deleted; it makes at most 100 delete calls, and
\* deleted_count never exceeds the number of calls.
C30_StopsOnlyAfterADelete ==
    /\ fn_result.delete_calls <= DeleteRange
    /\ fn_result.deleted_count <= fn_result.delete_calls
    /\ fn_result.broke => fn_result.deleted_count >= 1

ChunkIdle ==
    /\ text = <<>>
    /\ chunk_size = 1
    /\ overlap = 0
    /\ start = 0
    /\ chunks = <<>>
    /\ windows = <<>>
    /\ cpc = "idle"

InitDedup == DedupInit /\ ChunkIdle /\ HybridIdle /\ FnIdle

NextDedup ==
    \/ ScanHit /\ UNCHANGED <<chunkVars, hybridVars, fnVars>>
    \/ ScanEnd /\ UNCHANGED <<chunkVars, hybridVars, fnVars>>
    \/ FormatResults /\ UNCHANGED <<chunkVars, hybridVars, fnVars>>

SpecDedup == InitDedup /\ [][NextDedup]_vars

InitChunk == ChunkInit /\ DedupIdle /\ HybridIdle /\ FnIdle

NextChunk ==
    \/ ChunkEntry /\ UNCHANGED <<dedupVars, hybridVars, fnVars>>
    \/ ChunkStep /\ UNCHANGED <<dedupVars, hybridVars, fnVars>>

SpecChunk == InitChunk /\ [][NextChunk]_vars

InitHybrid == HybridInit /\ DedupIdle /\ ChunkIdle /\ FnIdle

NextHybrid ==
    \/ Enhance /\ UNCHANGED <<dedupVars, chunkVars, fnVars>>
    \/ Search /\ UNCHANGED <<dedupVars, chunkVars, fnVars>>
    \/ ProcessResult /\ UNCHANGED <<dedupVars, chunkVars, fnVars>>
    \/ Respond /\ UNCHANGED <<dedupVars, chunkVars, fnVars>>

SpecHybrid == InitHybrid /\ [][NextHybrid]_vars

InitInvalid == HybridEntry(InvalidRequests) /\ DedupIdle /\ ChunkIdle /\ FnIdle

SpecInvalid == InitInvalid /\ [][NextHybrid]_vars

InitRerank == RerankInit /\ DedupIdle /\ ChunkIdle /\ HybridIdle

NextRerank == RerankCall /\ UNCHANGED <<dedupVars, chunkVars, hybridVars>>

SpecRerank == InitRerank /\ [][NextRerank]_vars

InitFusion == FuseInit /\ DedupIdle /\ ChunkIdle /\ HybridIdle

NextFusion == FuseCall /\ UNCHANGED <<dedupVars, chunkVars, hybridVars>>

SpecFusion == InitFusion /\ [][NextFusion]_vars

InitEmbed == EmbedInit /\ DedupIdle /\ ChunkIdle /\ HybridIdle

NextEmbed ==
    \/ EmbedCall /\ UNCHANGED <<dedupVars, chunkVars, hybridVars>>
    \/ SearchCall /\ UNCHANGED <<dedupVars, chunkVars, hybridVars>>

SpecEmbed == InitEmbed /\ [][NextEmbed]_vars

InitChroma == ChromaInit /\ DedupIdle /\ ChunkIdle /\ HybridIdle

NextChroma ==
    \/ AddCall /\ UNCHANGED <<dedupVars, chunkVars, hybridVars>>
    \/ SearchChromaCall /\ UNCHANGED <<dedupVars, chunkVars, hybridVars>>

SpecChroma == InitChroma /\ [][NextChroma]_vars

InitDelete == DeleteInit /\ DedupIdle /\ ChunkIdle /\ HybridIdle

NextDelete ==
    \/ DeleteStep /\ UNCHANGED <<dedupVars, chunkVars, hybridVars>>
    \/ DeleteReturn /\ UNCHANGED <<dedupVars, chunkVars, hybridVars>>

SpecDelete == InitDelete /\ [][NextDelete]_vars

InitEnhance == EnhanceInit /\ DedupIdle /\ ChunkIdle /\ HybridIdle

NextEnhance == EnhanceCall /\ UNCHANGED <<dedupVars, chunkVars, hybridVars>>

SpecEnhance == InitEnhance /\ [][NextEnhance]_vars

====
